---------------------------- MODULE Spec2Model ----------------------------
(***************************************************************************)
(* MotionSignal: the refinement pipeline (services/dsp.ts refineChannel),  *)
(* the feature-extraction engine (services/dsp.ts analyzeAudioBuffer), and *)
(* of the App component the visibility resolver, the import of files, the  *)
(* analysis batch (startAnalysis) and the edits of the refine view.        *)
(*                                                                         *)
(* Numbers.  A JavaScript number is modelled as a fixed-point value: the   *)
(* integer k stands for k / Scale.  Every product, quotient and square     *)
(* root is rounded to the nearest multiple of 1 / Scale, the way the       *)
(* floating-point unit rounds every operation to the nearest representable *)
(* value.  The value NaN is modelled explicitly, with the rules of         *)
(* IEEE-754 that the code meets: it propagates through arithmetic,         *)
(* through Math.min and Math.max, and every comparison with it is false.   *)
(* A Float32Array element holds fewer digits than a number: a store into   *)
(* a track of analyzeAudioBuffer rounds to the nearest of Float32Levels    *)
(* values per unit (Fround).  The tracks handed to refineChannel are taken *)
(* as given, and the store into its result is not rounded.                 *)
(***************************************************************************)
EXTENDS Integers, Sequences, FiniteSets, TLC

(***************************************************************************)
(* Bounds of the model.                                                    *)
(***************************************************************************)
\* resolution of the fixed-point numbers: k stands for k / Scale
Scale == 1000
\* longest raw track handed to refineChannel
MaxLen == 2
\* most samples per channel of a decoded source
MaxSamples == 3
\* most channels in the channel list
MaxChannels == 3

(***************************************************************************)
(* Arithmetic of JavaScript numbers.                                       *)
(***************************************************************************)
\* the number NaN (no finite value of the model comes near it)
NaN == -999999999

IsNaN(x) == x = NaN

\* the decimal literal n / d, e.g. Dec(15, 100) for 0.15
Dec(n, d) == (n * Scale) \div d

One == Scale

Abs(x) == IF x < 0 THEN -x ELSE x

\* n / d rounded to the nearest integer, halves away from zero (d > 0)
RoundDiv(n, d) ==
    IF n >= 0 THEN (2 * n + d) \div (2 * d)
    ELSE -((2 * (-n) + d) \div (2 * d))

\* a + b
Add(a, b) == IF IsNaN(a) \/ IsNaN(b) THEN NaN ELSE a + b

\* a - b
Sub(a, b) == IF IsNaN(a) \/ IsNaN(b) THEN NaN ELSE a - b

\* a * b
Mul(a, b) == IF IsNaN(a) \/ IsNaN(b) THEN NaN ELSE RoundDiv(a * b, Scale)

\* a / b for b # 0, and 0 / 0, which is NaN.  (A quotient x / 0 with x # 0
\* would be an infinity; no division of the program meets that case, and
\* the model has no value for it.)
Div(a, b) ==
    CASE IsNaN(a) \/ IsNaN(b) -> NaN
      [] b = 0 /\ a = 0 -> NaN
      [] b > 0 -> RoundDiv(a * Scale, b)
      [] b < 0 -> RoundDiv((-a) * Scale, -b)

\* the integer n as a number
Num(n) == n * Scale

\* a % 1 for a >= 0
Mod1(a) == IF IsNaN(a) THEN NaN ELSE a % Scale

\* the values a Float32Array element can hold, per unit: far fewer than
\* the Scale values per unit of a number
Float32Levels == 20

\* Math.fround(a): the nearest value a Float32Array element can hold
Fround(a) ==
    IF IsNaN(a) THEN NaN
    ELSE RoundDiv(RoundDiv(a * Float32Levels, One) * One, Float32Levels)

\* a < b : false when either side is NaN
Lt(a, b) == ~IsNaN(a) /\ ~IsNaN(b) /\ a < b

\* a > b : false when either side is NaN
Gt(a, b) == ~IsNaN(a) /\ ~IsNaN(b) /\ a > b

\* Math.max(a, b) : NaN when either argument is NaN
MathMax(a, b) ==
    IF IsNaN(a) \/ IsNaN(b) THEN NaN ELSE IF a >= b THEN a ELSE b

\* Math.min(a, b) : NaN when either argument is NaN
MathMin(a, b) ==
    IF IsNaN(a) \/ IsNaN(b) THEN NaN ELSE IF a <= b THEN a ELSE b

\* Math.abs(a)
MathAbs(a) == IF IsNaN(a) THEN NaN ELSE Abs(a)

\* the integer square root: the r >= 0 whose square is nearest to n (n >= 0)
RECURSIVE SqrtSearch(_, _, _)
SqrtSearch(n, lo, hi) ==
    \* invariant: lo * lo <= n < (hi + 1) * (hi + 1)
    IF lo >= hi THEN lo
    ELSE LET mid == (lo + hi + 1) \div 2
         IN  IF mid * mid <= n THEN SqrtSearch(n, mid, hi)
             ELSE SqrtSearch(n, lo, mid - 1)

ISqrt(n) ==
    LET r == SqrtSearch(n, 0, IF n < 46340 THEN n ELSE 46340)
    IN  IF (r + 1) * (r + 1) - n < n - r * r THEN r + 1 ELSE r

\* Math.sqrt(a) : NaN for NaN and for a negative argument
MathSqrt(a) ==
    IF IsNaN(a) \/ a < 0 THEN NaN ELSE ISqrt(a * Scale)

(***************************************************************************)
(* constants.ts                                                            *)
(***************************************************************************)
DEFAULT_CONFIG == [fps |-> 30, bpm |-> 140, timeSignature |-> 4]

COLORS ==
    <<"#06b6d4", "#d946ef", "#8b5cf6", "#f97316",
      "#10b981", "#f43f5e", "#eab308", "#3b82f6">>

DEFAULT_REFINEMENT ==
    [gain |-> One, offset |-> 0, smooth |-> 0, gate |-> 0,
     clip |-> TRUE, invert |-> FALSE, quantize |-> 0]

(***************************************************************************)
(* services/dsp.ts : refineChannel                                         *)
(***************************************************************************)
\* const alpha = 1 - Math.pow(settings.smooth, 0.5) * 0.95
Alpha(settings) == Sub(One, Mul(MathSqrt(settings.smooth), Dec(95, 100)))

\* Gate: if (val < settings.gate) val = 0
GateMutantInclusive(val, settings) ==
    IF ~Gt(val, settings.gate) THEN 0 ELSE val
Gate(val, settings) == IF Lt(val, settings.gate) THEN 0 ELSE val

\* Gain & Offset: val = (val + settings.offset) * settings.gain
GainOffset(val, settings) == Mul(Add(val, settings.offset), settings.gain)

\* Smoothing: smoothed = (smoothed * (1 - alpha)) + (val * alpha)
SmoothMutantLag(smoothed, val, alpha) ==
    Add(Mul(smoothed, alpha), Mul(val, Sub(One, alpha)))
Smooth(smoothed, val, alpha) ==
    Add(Mul(smoothed, Sub(One, alpha)), Mul(val, alpha))

\* Clip: clamp to [0,1] when settings.clip, else clamp the bottom at 0
ClipMutantNoFloor(final, settings) ==
    IF settings.clip THEN MathMin(One, final) ELSE final
Clip(final, settings) ==
    IF settings.clip THEN MathMax(0, MathMin(One, final))
    ELSE MathMax(0, final)

\* Invert: if (settings.invert) final = 1 - final
InvertMutantNegate(final, settings) ==
    IF settings.invert THEN Sub(0, final) ELSE final
Invert(final, settings) ==
    IF settings.invert THEN Sub(One, final) ELSE final

\* const result = new Float32Array(raw.length): raw.length zeros
NewResultMutantShort(raw) ==
    [k \in 1..(IF Len(raw) > 1 THEN Len(raw) - 1 ELSE Len(raw)) |-> 0]
NewResult(raw) == [k \in 1..Len(raw) |-> 0]

\* a store into a typed array: ignored past the end of the array
Store(array, i, x) ==
    IF i \in DOMAIN array THEN [array EXCEPT ![i] = x] ELSE array

\* let smoothed = 0, at the start of every call, whatever an earlier call left
SmoothedAtCallMutantKept(left) == left
SmoothedAtCall(left) == 0

\* The body of the loop for sample i (1-based).  st is the memory the pass
\* works on: the argument array raw, the smoothing state and the result
\* array.  The body reads raw[i] and writes only smoothed and result[i].
LoopBodyMutantInPlace(settings, alpha, st, i) ==
    LET val      == GainOffset(Gate(st.raw[i], settings), settings)
        smoothed == Smooth(st.smoothed, val, alpha)
        final    == Invert(Clip(smoothed, settings), settings)
    IN  [raw      |-> Store(st.raw, i, final),
         smoothed |-> smoothed,
         result   |-> Store(st.result, i, final)]
LoopBody(settings, alpha, st, i) ==
    LET val      == GainOffset(Gate(st.raw[i], settings), settings)
        smoothed == Smooth(st.smoothed, val, alpha)
        final    == Invert(Clip(smoothed, settings), settings)
    IN  [raw      |-> st.raw,
         smoothed |-> smoothed,
         result   |-> Store(st.result, i, final)]

\* for (let i = 0; i < raw.length; i++) { ... }
RECURSIVE RefineLoop(_, _, _, _)
RefineLoop(settings, alpha, st, i) ==
    IF i > Len(st.raw) THEN st
    ELSE RefineLoop(settings, alpha, LoopBody(settings, alpha, st, i), i + 1)

refineChannel(raw, settings, bpm, fps) ==
    RefineLoop(settings, Alpha(settings),
               [raw |-> raw, smoothed |-> SmoothedAtCall(0),
                result |-> NewResult(raw)], 1).result

\* the content of the argument array raw when refineChannel returns
RawAfterRefine(raw, settings) ==
    RefineLoop(settings, Alpha(settings),
               [raw |-> raw, smoothed |-> SmoothedAtCall(0),
                result |-> NewResult(raw)], 1).raw


(***************************************************************************)
(* unnamed/part_001 : refineChannel, the earlier version of the pass, with *)
(* a Quantize stage between the smoothing and the clip                     *)
(***************************************************************************)
\* Math.floor(a) for a >= 0
MathFloor(a) == IF IsNaN(a) THEN NaN ELSE (a \div Scale) * Scale

\* const secondsPerBeat = 60 / bpm; const framesPerBeat = secondsPerBeat * fps;
\* let quantizeFrames = 0;
\* if (settings.quantize > 0)
\*     quantizeFrames = framesPerBeat / (settings.quantize / 4)
QuantizeFrames(settings, bpm, fps) ==
    IF settings.quantize > 0
    THEN Div(Mul(Div(Num(60), Num(bpm)), Num(fps)),
             Div(Num(settings.quantize), Num(4)))
    ELSE 0

\* const step = Math.floor(i / quantizeFrames) * quantizeFrames
QuantizeStep(i, quantizeFrames) ==
    Mul(MathFloor(Div(Num(i), quantizeFrames)), quantizeFrames)

\* Quantize, for sample i (0-based): if (quantizeFrames > 0) { const step =
\* ...; } -- the block declares step and assigns nothing, final is kept
QuantizeMutantHold(final, held, i, quantizeFrames) ==
    IF Gt(quantizeFrames, 0)
    THEN LET step == QuantizeStep(i, quantizeFrames) \div Scale
         IN  IF step < i THEN held[step + 1] ELSE final
    ELSE final
Quantize(final, held, i, quantizeFrames) ==
    IF Gt(quantizeFrames, 0)
    THEN LET step == QuantizeStep(i, quantizeFrames)
         IN  final
    ELSE final

\* the body of the loop of part_001 for sample i (1-based)
LoopBodyPart001(settings, alpha, quantizeFrames, st, i) ==
    LET val      == GainOffset(Gate(st.raw[i], settings), settings)
        smoothed == Smooth(st.smoothed, val, alpha)
        held     == Quantize(smoothed, st.result, i - 1, quantizeFrames)
        final    == Invert(Clip(held, settings), settings)
    IN  [raw      |-> st.raw,
         smoothed |-> smoothed,
         result   |-> Store(st.result, i, final)]

RECURSIVE RefineLoopPart001(_, _, _, _, _)
RefineLoopPart001(settings, alpha, quantizeFrames, st, i) ==
    IF i > Len(st.raw) THEN st
    ELSE RefineLoopPart001(settings, alpha, quantizeFrames,
             LoopBodyPart001(settings, alpha, quantizeFrames, st, i), i + 1)

refineChannelPart001(raw, settings, bpm, fps) ==
    RefineLoopPart001(settings, Alpha(settings),
                      QuantizeFrames(settings, bpm, fps),
                      [raw |-> raw, smoothed |-> SmoothedAtCall(0),
                       result |-> NewResult(raw)], 1).result


(***************************************************************************)
(* services/dsp.ts : analyzeAudioBuffer                                    *)
(*                                                                         *)
(* A decoded source is buffer = [sampleRate, numberOfChannels, data],      *)
(* data[c] the samples of channel c; buffer.length is the number of        *)
(* samples per channel and buffer.duration is length / sampleRate.         *)
(***************************************************************************)
BufferLength(buffer) == Len(buffer.data[1])

Min(a, b) == IF a <= b THEN a ELSE b

\* the least integer >= n / d (d > 0)
CeilDiv(n, d) == (n + d - 1) \div d

\* const totalFrames = Math.ceil(duration * config.fps)
TotalFramesMutantExtra(buffer, config) ==
    ((BufferLength(buffer) * config.fps) \div buffer.sampleRate) + 1
TotalFrames(buffer, config) ==
    CeilDiv(BufferLength(buffer) * config.fps, buffer.sampleRate)

\* const samplesPerFrame = Math.floor(buffer.sampleRate / config.fps)
\* (read by the frame loop only, which has no frame unless fps > 0)
SamplesPerFrameMutantCeil(buffer, config) ==
    CeilDiv(buffer.sampleRate, config.fps)
SamplesPerFrame(buffer, config) == buffer.sampleRate \div config.fps

\* new Float32Array(totalFrames) throws a RangeError for a negative length;
\* it is the only statement of analyzeAudioBuffer that can throw, and the
\* function has no check of its own on fps or on the sample rate
AnalyzeThrows(buffer, config) == TotalFrames(buffer, config) < 0

\* const lpAlpha = 0.15
lpAlpha == Dec(15, 100)

\* new Float32Array(n)
Float32Array(n) == [k \in 1..n |-> 0]

\* energy[f] = x, and the like: the stored value is rounded to float32
StoreFloat32(array, i, x) == Store(array, i, Fround(x))

\* const channelDataL = buffer.getChannelData(0)
ChannelDataL(buffer) == buffer.data[1]

\* const channelDataR = numberOfChannels > 1 ? getChannelData(1) : channelDataL
ChannelDataR(buffer) ==
    IF buffer.numberOfChannels > 1 THEN buffer.data[2] ELSE buffer.data[1]

\* the body of the loop over the samples of a frame, for sample i (0-based)
SampleBody(buffer, acc, i) ==
    LET sampleL  == ChannelDataL(buffer)[i + 1]
        sampleR  == ChannelDataR(buffer)[i + 1]
        mono     == Mul(Add(sampleL, sampleR), Dec(1, 2))
        diff     == MathAbs(Sub(sampleL, sampleR))
        lpState  == Add(acc.lpState, Mul(Sub(mono, acc.lpState), lpAlpha))
        lowFreq  == lpState
        highFreq == Sub(mono, lpState)
    IN  [lpState |-> lpState,
         sumSq   |-> Add(acc.sumSq, Mul(mono, mono)),
         sumLow  |-> Add(acc.sumLow, Mul(lowFreq, lowFreq)),
         sumHigh |-> Add(acc.sumHigh, Mul(highFreq, highFreq)),
         sumDiff |-> Add(acc.sumDiff, diff)]

\* for (let i = start; i < end; i++) { ... }
RECURSIVE SampleLoop(_, _, _, _)
SampleLoop(buffer, acc, i, end) ==
    IF i >= end THEN acc
    ELSE SampleLoop(buffer, SampleBody(buffer, acc, i), i + 1, end)

\* const start = f * samplesPerFrame
FrameStart(buffer, config, f) == f * SamplesPerFrame(buffer, config)

\* const end = Math.min(start + samplesPerFrame, channelDataL.length)
FrameEnd(buffer, config, f) ==
    Min(FrameStart(buffer, config, f) + SamplesPerFrame(buffer, config),
        BufferLength(buffer))

\* The body of the loop over the frames, for frame f (0-based).  st holds
\* the low-pass state, which is carried from frame to frame, and the seven
\* track arrays.
FrameBody(buffer, config, st, f) ==
    LET start   == FrameStart(buffer, config, f)
        end     == FrameEnd(buffer, config, f)
        acc     == SampleLoop(buffer,
                              [lpState |-> st.lpState, sumSq |-> 0,
                               sumLow |-> 0, sumHigh |-> 0, sumDiff |-> 0],
                              start, end)
        count   == Num(end - start)
        rms     == MathSqrt(Div(acc.sumSq, count))
        rmsLow  == MathSqrt(Div(acc.sumLow, count))
        rmsHigh == MathSqrt(Div(acc.sumHigh, count))
        avgDiff == Div(acc.sumDiff, count)
        energyF == MathMin(One, Mul(rms, Num(4)))
        lowF    == MathMin(One, Mul(rmsLow, Num(5)))
        highF   == MathMin(One, Mul(rmsHigh, Num(8)))
        midF    == MathMax(0, Sub(Sub(Fround(energyF),
                                      Mul(Fround(lowF), Dec(4, 10))),
                                  Mul(Fround(highF), Dec(4, 10))))
        totalSpec == Add(Add(rmsLow, rmsHigh), Dec(1, 1000))
        brightF == MathMin(One, Mul(Div(rmsHigh, totalSpec), Num(2)))
        widthF  == MathMin(One, Mul(avgDiff, Num(4)))
        delta   == IF f > 0 THEN Sub(Fround(energyF), st.energy[f]) ELSE 0
        transF  == IF f > 0
                   THEN (IF Gt(delta, 0) THEN MathMin(One, Mul(delta, Num(4)))
                         ELSE 0)
                   ELSE st.transient[f + 1]
    IN  [lpState    |-> acc.lpState,
         energy     |-> StoreFloat32(st.energy, f + 1, energyF),
         low        |-> StoreFloat32(st.low, f + 1, lowF),
         mid        |-> StoreFloat32(st.mid, f + 1, midF),
         high       |-> StoreFloat32(st.high, f + 1, highF),
         brightness |-> StoreFloat32(st.brightness, f + 1, brightF),
         width      |-> StoreFloat32(st.width, f + 1, widthF),
         transient  |-> StoreFloat32(st.transient, f + 1, transF)]

\* for (let f = 0; f < totalFrames; f++) { ... }
RECURSIVE FrameLoop(_, _, _, _, _)
FrameLoop(buffer, config, st, f, totalFrames) ==
    IF f >= totalFrames THEN st
    ELSE FrameLoop(buffer, config, FrameBody(buffer, config, st, f),
                   f + 1, totalFrames)

\* const secondsPerBeat = 60 / config.bpm
SecondsPerBeat(config) == Div(Num(60), Num(config.bpm))

\* const time = f / config.fps; const beats = time / secondsPerBeat
Beats(config, f) == Div(Div(Num(f), Num(config.fps)), SecondsPerBeat(config))

\* beatPhase[f] = beats % 1
BeatPhase(config, totalFrames) ==
    [k \in 1..totalFrames |-> Fround(Mod1(Beats(config, k - 1)))]

\* barPhase[f] = (beats / config.timeSignature) % 1
BarPhase(config, totalFrames) ==
    [k \in 1..totalFrames |->
        Fround(Mod1(Div(Beats(config, k - 1), Num(config.timeSignature))))]

\* const prefix = sourceId === 'master' ? '' : `${sourceName}_`
\* (an id `${prefix}energy` is the pair of its prefix and its feature)
PrefixMutantAlways(sourceId, sourceName) == sourceName
Prefix(sourceId, sourceName) ==
    IF sourceId = "master" THEN "" ELSE sourceName

Channel(sourceId, sourceName, feature, values, type) ==
    [id |-> <<Prefix(sourceId, sourceName), feature>>,
     name |-> <<sourceName, feature>>,
     sourceId |-> sourceId, values |-> values, type |-> type]

PhaseChannel(sourceId, feature, values) ==
    [id |-> <<"", feature>>, name |-> <<"", feature>>,
     sourceId |-> sourceId, values |-> values, type |-> "phase"]

analyzeAudioBuffer(buffer, config, sourceId, sourceName) ==
    LET totalFrames == TotalFrames(buffer, config)
        st == FrameLoop(buffer, config,
                        [lpState    |-> 0,
                         energy     |-> Float32Array(totalFrames),
                         low        |-> Float32Array(totalFrames),
                         mid        |-> Float32Array(totalFrames),
                         high       |-> Float32Array(totalFrames),
                         brightness |-> Float32Array(totalFrames),
                         width      |-> Float32Array(totalFrames),
                         transient  |-> Float32Array(totalFrames)],
                        0, totalFrames)
    IN  <<Channel(sourceId, sourceName, "energy", st.energy, "energy"),
          Channel(sourceId, sourceName, "low", st.low, "energy"),
          Channel(sourceId, sourceName, "mid", st.mid, "energy"),
          Channel(sourceId, sourceName, "high", st.high, "energy"),
          Channel(sourceId, sourceName, "transient", st.transient, "rhythmic"),
          Channel(sourceId, sourceName, "brightness", st.brightness, "creative"),
          Channel(sourceId, sourceName, "width", st.width, "creative")>>
        \o (IF sourceId = "master"
            THEN <<PhaseChannel(sourceId, "beat_phase",
                                BeatPhase(config, totalFrames)),
                   PhaseChannel(sourceId, "bar_phase",
                                BarPhase(config, totalFrames))>>
            ELSE <<>>)

(***************************************************************************)
(* App: channel states and the visibility resolver                         *)
(***************************************************************************)
\* the ChannelState that startAnalysis creates for raw channel number idx
\* (0-based) of the results
InitialState(rawChannel, index) ==
    [id |-> rawChannel.id,
     settings |-> DEFAULT_REFINEMENT,
     processedValues |-> rawChannel.values,
     visible |-> TRUE,
     mute |-> FALSE,
     solo |-> FALSE,
     color |-> COLORS[(index % Len(COLORS)) + 1]]

\* prev.map(ch => ch.id === id ? { ...ch, [key]: !ch[key] } : ch)
ToggleKey(states, id, key) ==
    [k \in DOMAIN states |->
        IF states[k].id = id
        THEN [states[k] EXCEPT ![key] = ~states[k][key]]
        ELSE states[k]]

\* const anySolo = channelStates.some(ch => ch.solo)
AnySolo(states) == \E k \in DOMAIN states : states[k].solo

\* the useMemo visibleChannels
VisibleChannelsMutantMuteWins(states) ==
    [k \in DOMAIN states |->
        IF ~states[k].visible THEN [states[k] EXCEPT !.visible = FALSE]
        ELSE IF AnySolo(states)
        THEN [states[k] EXCEPT !.visible = states[k].solo /\ ~states[k].mute]
        ELSE [states[k] EXCEPT !.visible = ~states[k].mute]]
VisibleChannels(states) ==
    [k \in DOMAIN states |->
        IF ~states[k].visible THEN [states[k] EXCEPT !.visible = FALSE]
        ELSE IF AnySolo(states)
        THEN [states[k] EXCEPT !.visible = states[k].solo]
        ELSE [states[k] EXCEPT !.visible = ~states[k].mute]]


(***************************************************************************)
(* State.                                                                  *)
(*   raw, settings  the arguments of the refineChannel call                *)
(*   result         the Float32Array the call fills and returns            *)
(*   smoothed, idx  the smoothing state and the loop index of the pass     *)
(*   pc             where the call stands                                  *)
(*   argRaw         the caller's array as it was when the call was made    *)
(*   ref            an earlier completed call, kept for comparison         *)
(*   buffer, config, sourceId, sourceName                                  *)
(*                  the arguments of the analyzeAudioBuffer call           *)
(*   channels       the RawChannelData list the call returns               *)
(*   analyzed       whether the call has ended                             *)
(*   error          the exception the call ended with, "none" if it        *)
(*                  returned                                               *)
(*   channelStates  the App state channelStates                            *)
(*   view, files, isAnalyzing, analyzeProgress, rawChannels,               *)
(*   selectedChannelId                                                     *)
(*                  the App states of these names (config, above, is the   *)
(*                  App state config in the session specifications; the    *)
(*                  null of selectedChannelId is the empty tuple)          *)
(*   batch          the running startAnalysis call: where it stands, its   *)
(*                  loop index i, its local results and the config its     *)
(*                  closure captured                                       *)
(*   timers         the pending setTimeout(() => setView('refine'), 500)   *)
(*   alerts         the alert() dialogs shown so far                       *)
(*   runs           the startAnalysis calls made so far                    *)
(*   edits          the settings edits and flag toggles made so far        *)
(* History, kept for the properties only:                                  *)
(*   outcome        how the latest startAnalysis call ended                *)
(*   progressLog    the values passed to setAnalyzeProgress by the latest  *)
(*                  call, in order                                         *)
(*   trace          the decode and extraction events of the latest call    *)
(*   before         rawChannels, channelStates, timers, alerts and view as *)
(*                  they were when the latest call started                 *)
(*   rawConfig      the config that rawChannels was computed with          *)
(*   inFlight       the startAnalysis calls that have not ended             *)
(***************************************************************************)
VARIABLES raw, settings, result, smoothed, idx, pc, argRaw, ref,
          buffer, config, sourceId, sourceName, channels, analyzed, error,
          channelStates,
          view, files, isAnalyzing, analyzeProgress, rawChannels,
          selectedChannelId, batch, timers, alerts, runs, edits,
          outcome, progressLog, trace, before, rawConfig, inFlight

refineVars == <<raw, settings, result, smoothed, idx, pc, argRaw, ref>>

analyzeVars ==
    <<buffer, config, sourceId, sourceName, channels, analyzed, error>>

sessionVars ==
    <<view, files, isAnalyzing, analyzeProgress, rawChannels,
      selectedChannelId, batch, timers, alerts, runs, edits>>

historyVars == <<outcome, progressLog, trace, before, rawConfig, inFlight>>

appVars == <<channelStates, sessionVars, historyVars>>

vars == <<refineVars, analyzeVars, appVars>>

\* the state of the parts a specification does not exercise
RefineIdle ==
    /\ raw = <<>>
    /\ settings = DEFAULT_REFINEMENT
    /\ result = <<>>
    /\ smoothed = 0
    /\ idx = 0
    /\ pc = "idle"
    /\ argRaw = <<>>
    /\ ref = [none |-> TRUE]

AnalyzeIdle ==
    /\ buffer = [sampleRate |-> 1, numberOfChannels |-> 1, data |-> <<<<>>>>]
    /\ config = DEFAULT_CONFIG
    /\ sourceId = "master"
    /\ sourceName = ""
    /\ channels = <<>>
    /\ analyzed = FALSE
    /\ error = "none"

None == [none |-> TRUE]

\* no startAnalysis call is running
NoBatch == [pc |-> "idle", i |-> 0, results |-> <<>>, config |-> None]

\* the App as it is mounted (the useState initial values)
SessionIdle ==
    /\ view = "import"
    /\ files = <<>>
    /\ isAnalyzing = FALSE
    /\ analyzeProgress = 0
    /\ rawChannels = <<>>
    /\ selectedChannelId = <<>>
    /\ batch = NoBatch
    /\ timers = 0
    /\ alerts = 0
    /\ runs = 0
    /\ edits = 0
    /\ outcome = "none"
    /\ progressLog = <<>>
    /\ trace = <<>>
    /\ before = None
    /\ rawConfig = None
    /\ inFlight = 0

AppIdle == channelStates = <<>> /\ SessionIdle

(***************************************************************************)
(* Inputs of refineChannel: raw tracks of up to MaxLen samples (samples    *)
(* below 0 and above 1 included) and settings within the ranges of the     *)
(* sliders of components/Controls.tsx.                                     *)
(***************************************************************************)
RawValues == {-Dec(1, 2), 0, Dec(3, 10), Dec(6, 10), One, Dec(3, 2)}

RawTracks == UNION {[1..n -> RawValues] : n \in 0..MaxLen}

GainValues == {0, One, 2 * One, 5 * One}

OffsetValues == {-One, 0, Dec(1, 2)}

SmoothValues == {0, Dec(1, 4), One}

GateValues == {0, Dec(6, 10), One}

QuantizeValues == {0, 4}

SettingsSet ==
    [gain : GainValues, offset : OffsetValues, smooth : SmoothValues,
     gate : GateValues, clip : BOOLEAN, invert : BOOLEAN,
     quantize : QuantizeValues]

(***************************************************************************)
(* SpecRefine: one call of refineChannel on every input of the bounds.     *)
(***************************************************************************)
InitRefine ==
    /\ raw \in RawTracks
    /\ settings \in SettingsSet
    /\ result = <<>>
    /\ smoothed = 0
    /\ idx = 0
    /\ pc = "ready"
    /\ argRaw = raw
    /\ ref = None
    /\ AnalyzeIdle
    /\ AppIdle

\* const processed = refineChannel(raw.values, settings, config.bpm, config.fps)
Refine ==
    /\ pc = "ready"
    /\ result' = refineChannel(raw, settings, DEFAULT_CONFIG.bpm, DEFAULT_CONFIG.fps)
    /\ pc' = "done"
    /\ UNCHANGED <<raw, settings, smoothed, idx, argRaw, ref>>

NextRefine == Refine /\ UNCHANGED <<analyzeVars, appVars>>

SpecRefine == InitRefine /\ [][NextRefine]_vars

Returned == pc = "done"

\* clamp(x, 0, 1)
Clamp01(x) == IF x < 0 THEN 0 ELSE IF x > One THEN One ELSE x

\* C1: refineChannel returns a sequence whose length equals raw.length, for
\* every raw track (the empty one included) and all settings in range.
C1_SameLength == Returned => Len(result) = Len(raw)

C1_Witness == Returned /\ Len(raw) = 2 /\ Len(result) = 2 /\ settings.gain = 2 * One

C3_NeverNegative ==
    (Returned /\ ~settings.clip) => \A k \in DOMAIN result : result[k] >= 0

\* C4: the identity settings return clamp(raw[i], 0, 1) at every index.
C4_Identity ==
    (Returned /\ settings = DEFAULT_REFINEMENT) =>
        /\ DOMAIN result = DOMAIN raw
        /\ \A k \in DOMAIN raw : result[k] = Clamp01(raw[k])

C4_Witness ==
    /\ Returned /\ settings = DEFAULT_REFINEMENT
    /\ raw = <<Dec(3, 2), Dec(3, 10)>> /\ result = <<One, Dec(3, 10)>>

\* C5: the gate is strict and comes before offset and gain: with smooth = 0
\* a sample below the gate leaves the gain stage as offset * gain, a sample
\* at or above the gate as (raw[i] + offset) * gain; clip and invert follow.
C5_PreClip(k) ==
    LET gated == IF raw[k] < settings.gate THEN 0 ELSE raw[k]
    IN  RoundDiv((gated + settings.offset) * settings.gain, Scale)

C5_Post(x) ==
    LET c == IF settings.clip THEN Clamp01(x) ELSE IF x < 0 THEN 0 ELSE x
    IN  IF settings.invert THEN One - c ELSE c

C5_GateBeforeGain ==
    (Returned /\ settings.smooth = 0) =>
        /\ DOMAIN result = DOMAIN raw
        /\ \A k \in DOMAIN raw : result[k] = C5_Post(C5_PreClip(k))

\* a sample below the gate next to a sample equal to the gate
C5_Witness ==
    /\ Returned /\ settings.smooth = 0 /\ ~settings.clip /\ ~settings.invert
    /\ settings.gate = Dec(6, 10) /\ settings.offset = Dec(1, 2)
    /\ settings.gain = 2 * One
    /\ raw = <<Dec(3, 10), Dec(6, 10)>>
    /\ result = <<One, Dec(22, 10)>>

\* C6: with clip = true, 1 - refineChannel(raw, {.., invert: true})[i] equals
\* refineChannel(raw, {.., invert: false})[i], which lies in [0,1].
C6_Plain == refineChannel(raw, [settings EXCEPT !.invert = FALSE],
                          DEFAULT_CONFIG.bpm, DEFAULT_CONFIG.fps)

QuantizeDivisions == {0, 4, 8, 16}

QuantizeSettings ==
    [gain : {One, 2 * One}, offset : {0}, smooth : {0, Dec(1, 4)},
     gate : {0}, clip : BOOLEAN, invert : BOOLEAN,
     quantize : QuantizeDivisions]

QuantizeConfigs == [fps : {24, 30}, bpm : {60, 140}, timeSignature : {4}]

InitQuantize ==
    /\ raw \in RawTracks
    /\ settings \in QuantizeSettings
    /\ result = <<>>
    /\ smoothed = 0
    /\ idx = 0
    /\ pc = "ready"
    /\ argRaw = raw
    /\ ref = None
    /\ buffer = [sampleRate |-> 1, numberOfChannels |-> 1, data |-> <<<<>>>>]
    /\ config \in QuantizeConfigs
    /\ sourceId = "master"
    /\ sourceName = ""
    /\ channels = <<>>
    /\ analyzed = FALSE
    /\ error = "none"
    /\ AppIdle

\* refineChannel(raw.values, settings, config.bpm, config.fps), services/dsp.ts
RefineCurrent ==
    /\ pc = "ready"
    /\ result' = refineChannel(raw, settings, config.bpm, config.fps)
    /\ pc' = "done"
    /\ UNCHANGED <<raw, settings, smoothed, idx, argRaw, ref>>

\* refineChannel(raw.values, settings, config.bpm, config.fps), part_001
RefinePart001 ==
    /\ pc = "ready"
    /\ result' = refineChannelPart001(raw, settings, config.bpm, config.fps)
    /\ pc' = "done001"
    /\ UNCHANGED <<raw, settings, smoothed, idx, argRaw, ref>>

NextQuantize ==
    \/ RefineCurrent /\ UNCHANGED <<analyzeVars, appVars>>
    \/ RefinePart001 /\ UNCHANGED <<analyzeVars, appVars>>

SpecQuantize == InitQuantize /\ [][NextQuantize]_vars

\* C25: the quantize setting has no effect: for every quantize of 0, 4, 8,
\* 16 and every bpm and fps, refineChannel returns what it returns for the
\* same raw track and the same other settings with quantize 0, in the
\* version of services/dsp.ts, which never reads the setting, and in the
\* version of part_001, which computes a step boundary and reads no held
\* value back.
C25_QuantizeNoEffect ==
    pc \in {"done", "done001"} =>
        result = refineChannel(raw, [settings EXCEPT !.quantize = 0],
                               DEFAULT_CONFIG.bpm, DEFAULT_CONFIG.fps)

\* a call of part_001 with quantize 16 on two samples: the step of 3.2
\* frames spans both samples, and the result still follows the second one
C25_Witness ==
    /\ pc = "done001"
    /\ settings.quantize = 16
    /\ config = DEFAULT_CONFIG
    /\ Len(raw) = 2
    /\ QuantizeFrames(settings, config.bpm, config.fps) > Num(2)
    /\ QuantizeStep(1, QuantizeFrames(settings, config.bpm, config.fps)) = 0
    /\ result[1] # result[2]

(***************************************************************************)
(* SpecCalls: refineChannel executed statement by statement, call after    *)
(* call, on the memory it works on.  A completed call may be kept in ref   *)
(* and compared with every later call on the same arguments.               *)
(***************************************************************************)
CallRawValues == {Dec(3, 10), One}

CallTracks == UNION {[1..n -> CallRawValues] : n \in 0..MaxLen}

CallSettings ==
    {s \in SettingsSet :
        /\ s.gain \in {One, 2 * One} /\ s.smooth \in {0, Dec(1, 4)}
        /\ s.offset = 0 /\ s.gate = 0 /\ s.clip /\ s.quantize = 0}

InitCalls == RefineIdle /\ AnalyzeIdle /\ AppIdle

\* entry of refineChannel(raw, settings, bpm, fps): the result array is
\* allocated and the smoothing state is set
Call(r, s) ==
    /\ pc \in {"idle", "done"}
    /\ raw' = r
    /\ argRaw' = r
    /\ settings' = s
    /\ result' = NewResult(r)
    /\ smoothed' = SmoothedAtCall(smoothed)
    /\ idx' = 1
    /\ pc' = "loop"
    /\ UNCHANGED ref

\* one iteration of the loop
Step ==
    /\ pc = "loop"
    /\ idx <= Len(raw)
    /\ LET st == LoopBody(settings, Alpha(settings),
                          [raw |-> raw, smoothed |-> smoothed,
                           result |-> result], idx)
       IN  /\ raw' = st.raw
           /\ smoothed' = st.smoothed
           /\ result' = st.result
    /\ idx' = idx + 1
    /\ UNCHANGED <<settings, pc, argRaw, ref>>

\* return result
Return ==
    /\ pc = "loop"
    /\ idx > Len(raw)
    /\ pc' = "done"
    /\ UNCHANGED <<raw, settings, result, smoothed, idx, argRaw, ref>>

\* the call just completed is kept for comparison with later calls
Keep ==
    /\ pc = "done"
    /\ ref = None
    /\ ref' = [raw |-> argRaw, settings |-> settings, result |-> result]
    /\ UNCHANGED <<raw, settings, result, smoothed, idx, pc, argRaw>>

NextCalls ==
    /\ \/ \E r \in CallTracks, s \in CallSettings : Call(r, s)
       \/ Step
       \/ Return
       \/ Keep
    /\ UNCHANGED <<analyzeVars, appVars>>

SpecCalls == InitCalls /\ [][NextCalls]_vars

\* C7: refineChannel carries no state between calls: a call returns what an
\* earlier call on the same (raw, settings) returned, whatever calls were
\* made in between, it returns what a pass whose smoothing state starts at
\* 0 returns, and it leaves the argument array as it was.
C7_NoStateBetweenCalls ==
    Returned =>
        /\ raw = argRaw
        /\ (ref # None /\ ref.raw = argRaw /\ ref.settings = settings)
              => result = ref.result
        /\ result = refineChannel(argRaw, settings,
                                  DEFAULT_CONFIG.bpm, DEFAULT_CONFIG.fps)

\* the same smoothed call made again after another call in between
C7_Witness ==
    /\ Returned /\ ref # None
    /\ ref.raw = argRaw /\ ref.settings = settings
    /\ settings.smooth = Dec(1, 4) /\ Len(raw) = 2
    /\ smoothed # 0
    /\ result = ref.result


(***************************************************************************)
(* SpecVisibility: a channel list of up to MaxChannels channels, as        *)
(* startAnalysis creates it, under toggleChannelState.                     *)
(***************************************************************************)
\* the ids of the channels of a master source, in the order of the list
MasterIds ==
    LET empty == [sampleRate |-> 1, numberOfChannels |-> 1, data |-> <<<<>>>>]
        list  == analyzeAudioBuffer(empty, DEFAULT_CONFIG, "master", "")
    IN  [k \in DOMAIN list |-> list[k].id]

InitVisibility ==
    /\ \E n \in 0..MaxChannels :
          channelStates =
              [k \in 1..n |->
                  InitialState([id |-> MasterIds[k], values |-> <<>>], k - 1)]
    /\ SessionIdle
    /\ RefineIdle
    /\ AnalyzeIdle

\* const toggleChannelState = (id, key: 'visible' | 'mute' | 'solo') => ...
toggleChannelState(id, key) ==
    /\ channelStates' = ToggleKey(channelStates, id, key)

NextVisibility ==
    /\ \E k \in DOMAIN channelStates, key \in {"visible", "mute", "solo"} :
          toggleChannelState(channelStates[k].id, key)
    /\ UNCHANGED <<refineVars, analyzeVars, sessionVars, historyVars>>

SpecVisibility == InitVisibility /\ [][NextVisibility]_vars

\* C8: the resolver gives every channel c the visibility
\* c.visible AND (if any channel is soloed then c.solo else NOT c.mute), and
\* changes nothing else of the channel.
C8_Resolver ==
    LET shown == VisibleChannels(channelStates)
        anySolo == \E j \in DOMAIN channelStates : channelStates[j].solo
    IN  /\ DOMAIN shown = DOMAIN channelStates
        /\ \A k \in DOMAIN channelStates :
              LET c == channelStates[k]
              IN  /\ shown[k].visible =
                        (c.visible /\ (IF anySolo THEN c.solo ELSE ~c.mute))
                  /\ shown[k] = [c EXCEPT !.visible = shown[k].visible]
                  /\ (anySolo /\ ~c.solo) => ~shown[k].visible
                  /\ (anySolo /\ c.solo /\ c.visible) => shown[k].visible
                  /\ ~c.visible => ~shown[k].visible

\* a soloed and muted channel is shown, an unmuted channel without solo is
\* hidden, and a soloed channel with the eye off is hidden
C8_Witness ==
    /\ Len(channelStates) = 3
    /\ channelStates[1].solo /\ channelStates[1].mute /\ channelStates[1].visible
    /\ ~channelStates[2].solo /\ ~channelStates[2].mute /\ channelStates[2].visible
    /\ channelStates[3].solo /\ ~channelStates[3].visible
    /\ VisibleChannels(channelStates)[1].visible
    /\ ~VisibleChannels(channelStates)[2].visible
    /\ ~VisibleChannels(channelStates)[3].visible

(***************************************************************************)
(* SpecAnalyze: one call of analyzeAudioBuffer on every source and         *)
(* configuration of the bounds: mono and stereo sources of up to           *)
(* MaxSamples samples in [-1,1], bpm > 0, and the values of fps that the   *)
(* number field of the analyze view lets through parseInt: positive, zero  *)
(* and negative.  (The sample rate of a decoded AudioBuffer is positive.)  *)
(***************************************************************************)
SampleValues == {-One, 0, Dec(1, 2)}

SampleRates == {2, 3}

SampleArrays(n) == [1..n -> SampleValues]

Buffers ==
    UNION {
        {[sampleRate |-> sr, numberOfChannels |-> 1, data |-> <<l>>] :
            sr \in SampleRates, l \in SampleArrays(n)}
        \cup
        {[sampleRate |-> sr, numberOfChannels |-> 2, data |-> <<l, r>>] :
            sr \in SampleRates, l \in SampleArrays(n), r \in SampleArrays(n)}
        : n \in 0..MaxSamples}

FpsValues == {-1, 0, 1, 2, 3}

BpmValues == {60, 90}

Configs == [fps : FpsValues, bpm : BpmValues, timeSignature : {4}]

InitAnalyze ==
    /\ buffer \in Buffers
    /\ config \in Configs
    /\ sourceId \in {"master", "x7k2p9q1a"}
    /\ sourceName = "kick"
    /\ channels = <<>>
    /\ analyzed = FALSE
    /\ error = "none"
    /\ RefineIdle
    /\ AppIdle

\* const channels = await analyzeAudioBuffer(buffer, config, sourceId, name)
Analyze ==
    /\ ~analyzed
    /\ IF AnalyzeThrows(buffer, config)
       THEN /\ error' = "RangeError"
            /\ channels' = <<>>
       ELSE /\ error' = "none"
            /\ channels' =
                   analyzeAudioBuffer(buffer, config, sourceId, sourceName)
    /\ analyzed' = TRUE
    /\ UNCHANGED <<buffer, config, sourceId, sourceName>>

NextAnalyze == Analyze /\ UNCHANGED <<refineVars, appVars>>

SpecAnalyze == InitAnalyze /\ [][NextAnalyze]_vars

\* C9 (as claimed): every value of every track that analyzeAudioBuffer
\* returns lies in [0,1], for every source with samples in [-1,1] and every
\* config with fps > 0 and bpm > 0.
C9_TracksInUnitRange ==
    (analyzed /\ config.fps > 0) =>
        \A c \in DOMAIN channels : \A k \in DOMAIN channels[c].values :
            LET v == channels[c].values[k]
            IN  v # NaN /\ 0 <= v /\ v <= One

\* C10 (as claimed): no track holds a non-finite value, for any source
\* (silent, mono, zero-length) and any configuration, fps above the sample
\* rate included.
C10_TracksFinite ==
    analyzed =>
        \A c \in DOMAIN channels : \A k \in DOMAIN channels[c].values :
            ~IsNaN(channels[c].values[k])

\* C11 (as claimed): a call with fps <= 0 or with a sample rate <= 0 fails
\* with an InvalidConfiguration condition and returns no channels.
C11_InvalidConfiguration ==
    (analyzed /\ (config.fps <= 0 \/ buffer.sampleRate <= 0)) =>
        /\ error = "InvalidConfiguration"
        /\ channels = <<>>

Silent(b) ==
    \A c \in DOMAIN b.data : \A k \in DOMAIN b.data[c] : b.data[c][k] = 0

\* C13 (as claimed): for a silent source every track the call returns is 0
\* at every frame, for any bpm and fps, and holds no NaN.
C13_SilenceAllZero ==
    (analyzed /\ Silent(buffer)) =>
        \A c \in DOMAIN channels : \A k \in DOMAIN channels[c].values :
            channels[c].values[k] = 0

\* the ids of the channels of a call, in the order of the list
ChannelIds == [c \in DOMAIN channels |-> channels[c].id]

\* C22: a call for the master source returns exactly nine tracks, with the
\* unprefixed ids energy, low, mid, high, transient, brightness, width,
\* beat_phase and bar_phase; a call for another source returns exactly
\* seven tracks, each id prefixed with the source name, none of type phase.
C22_MasterNineStemSeven ==
    (analyzed /\ error = "none") =>
        IF sourceId = "master"
        THEN ChannelIds =
                 << <<"", "energy">>, <<"", "low">>, <<"", "mid">>,
                    <<"", "high">>, <<"", "transient">>,
                    <<"", "brightness">>, <<"", "width">>,
                    <<"", "beat_phase">>, <<"", "bar_phase">> >>
        ELSE /\ ChannelIds =
                   << <<sourceName, "energy">>, <<sourceName, "low">>,
                      <<sourceName, "mid">>, <<sourceName, "high">>,
                      <<sourceName, "transient">>,
                      <<sourceName, "brightness">>,
                      <<sourceName, "width">> >>
             /\ sourceName # ""
             /\ \A c \in DOMAIN channels : channels[c].type # "phase"

\* a stem of two frames: seven tracks, all prefixed with "kick"
C22_Witness ==
    /\ analyzed /\ error = "none"
    /\ sourceId # "master"
    /\ Len(channels) = 7
    /\ \A c \in DOMAIN channels :
          channels[c].id[1] = "kick" /\ Len(channels[c].values) = 2

\* C23 (as claimed): for a source of one channel the width track is 0 at
\* every frame, whatever the samples.
C23_MonoWidthZero ==
    (analyzed /\ buffer.numberOfChannels = 1) =>
        \A c \in DOMAIN channels :
            channels[c].id[2] = "width" =>
                \A k \in DOMAIN channels[c].values :
                    channels[c].values[k] = 0

\* v is x mod 1: 0 <= v < 1 and x - v is a whole number of units
IsFraction(v, x) ==
    /\ 0 <= v /\ v < One
    /\ \E q \in 0..(x \div One) : x = q * One + v

\* C24 (as claimed): for the master source and fps > 0, bpm > 0,
\* beatPhase[f] is (f/fps / (60/bpm)) mod 1 and barPhase[f] is that number
\* of beats divided by timeSignature, mod 1 (each as the track holds it,
\* a float32), and both lie in [0,1), never at 1.
C24_PhaseInHalfOpenUnit ==
    (analyzed /\ error = "none" /\ sourceId = "master" /\ config.fps > 0) =>
        /\ \E c \in DOMAIN channels : channels[c].id[2] = "beat_phase"
        /\ \E c \in DOMAIN channels : channels[c].id[2] = "bar_phase"
        /\ \A c \in DOMAIN channels : \A k \in DOMAIN channels[c].values :
              LET beats == Div(Div(Num(k - 1), Num(config.fps)),
                               Div(Num(60), Num(config.bpm)))
                  bars  == Div(beats, Num(config.timeSignature))
                  v     == channels[c].values[k]
              IN  /\ channels[c].id[2] = "beat_phase" =>
                        /\ \E p \in 0..(One - 1) :
                              IsFraction(p, beats) /\ v = Fround(p)
                        /\ 0 <= v /\ v < One
                  /\ channels[c].id[2] = "bar_phase" =>
                        /\ \E p \in 0..(One - 1) :
                              IsFraction(p, bars) /\ v = Fround(p)
                        /\ 0 <= v /\ v < One

MaxFiles == 3
\* most startAnalysis calls of a session
MaxRuns == 2

\* The audio files the user can pick: a File has a name, and bytes that
\* decode to an AudioBuffer (audio).
KickFile ==
    [name |-> "kick.wav",
     audio |-> [sampleRate |-> 30, numberOfChannels |-> 1,
                data |-> <<<<Dec(1, 2), 0>>>>]]

BassFile ==
    [name |-> "bass.mp3",
     audio |-> [sampleRate |-> 30, numberOfChannels |-> 2,
                data |-> <<<<One>>, <<0>>>>]]

Disk == {KickFile, BassFile}

\* what one use of the file input (multiple) can deliver: one file, or
\* several different files in some order
Selections ==
    {<<a>> : a \in Disk}
    \cup {<<p[1], p[2]>> : p \in {q \in Disk \X Disk : q[1] # q[2]}}

\* Math.random().toString(36).substr(2, 9): the id of the k-th file of the
\* list (ids of different files are taken to differ)
FileIds == <<"q1w2e3r4t", "a5s6d7f8g", "z9x8c7v6b", "p0o9i8u7y", "m1n2b3v4c">>

\* the AudioFile that handleFileUpload pushes for the k-th file of a
\* selection; shown is the file list of the render the handler belongs to
NewFile(file, shown, k) ==
    [id |-> FileIds[Len(shown) + k],
     file |-> file,
     name |-> file.name,
     type |-> IF Len(shown) = 0 THEN "master" ELSE "stem",
     duration |-> 0,
     sampleRate |-> 0,
     channels |-> 0,
     buffer |-> None]

\* [...files, ...newFiles]
WithNewFiles(shown, selection) ==
    shown \o [k \in 1..Len(selection) |-> NewFile(selection[k], shown, k)]

\* decodeAudioFile(file), when it does not throw
decodeAudioFile(file) == file.audio

\* f.duration = buffer.duration; f.sampleRate = ...; f.channels = ...;
\* f.buffer = buffer
Decoded(f, b) ==
    [f EXCEPT !.duration = Div(Num(BufferLength(b)), Num(b.sampleRate)),
              !.sampleRate = b.sampleRate,
              !.channels = b.numberOfChannels,
              !.buffer = b]

\* f.type === 'master' ? 'master' : f.id
SourceIdOf(f) == IF f.type = "master" THEN "master" ELSE f.id

\* f.name.replace('.wav', ''), on the names of Disk
ReplaceWav(name) ==
    CASE name = "kick.wav" -> "kick"
      [] name = "bass.mp3" -> "bass.mp3"

\* results.push(...channels)
PushMutantUnshift(results, list) == list \o results
Push(results, list) == results \o list

\* ((i) / files.length) * 50, as a percentage.  (Quotient and product are
\* rounded together here: for the values of a batch the two roundings of
\* the code never change the order of two progress values.)
ProgressAtDecode(i, n) == RoundDiv(i * 50 * Scale, n)

\* ((i + 0.5) / files.length) * 100
ProgressAtExtract(i, n) == RoundDiv((2 * i + 1) * 50 * Scale, n)

\* const initialStates = results.map((raw, idx) => ({ ... }))
InitialStatesMutantShort(results) ==
    [k \in 1..(Len(results) - 1) |-> InitialState(results[k], k - 1)]
InitialStates(results) ==
    [k \in 1..Len(results) |-> InitialState(results[k], k - 1)]

\* alert("Error analyzing audio. Check console.")
AlertMutantSilent(shownAlerts) == shownAlerts
Alert(shownAlerts) == shownAlerts + 1


(***************************************************************************)
(* SpecSession: the App from its mounting on: imports in the import view,  *)
(* edits of the fps field and startAnalysis calls in the analyze view, and *)
(* the timer that opens the refine view.  A step of the batch is one run   *)
(* of startAnalysis between two suspensions: the code from the call to the *)
(* first await of a decode, and from the end of a decode (the extraction   *)
(* that follows runs without a suspension another task could use) to the   *)
(* next await of a decode or to the end of the call.                       *)
(***************************************************************************)
\* the values typed into the Target FPS field (parseInt lets a negative
\* number through)
SessionFps == {-30, 15, 30}

InitSession == RefineIdle /\ AnalyzeIdle /\ AppIdle

\* const f = files[i]
CurrentFile == files[batch.i + 1]

\* const buffer = await decodeAudioFile(f.file)
CurrentBuffer == decodeAudioFile(CurrentFile.file)

\* const channels = await analyzeAudioBuffer(buffer, config,
\*     f.type === 'master' ? 'master' : f.id, f.name.replace('.wav', ''))
CurrentChannels ==
    analyzeAudioBuffer(CurrentBuffer, batch.config, SourceIdOf(CurrentFile),
                       ReplaceWav(CurrentFile.name))

\* the file input of the import view
handleFileUpload(selection) ==
    /\ view = "import"
    /\ Len(files) + Len(selection) <= MaxFiles
    /\ files' = WithNewFiles(files, selection)
    /\ UNCHANGED <<config, channelStates, view, isAnalyzing, analyzeProgress,
                   rawChannels, selectedChannelId, batch, timers, alerts,
                   runs, edits, historyVars>>

\* {isAnalyzing ? <progress bar> : <button onClick={startAnalysis}>}: the
\* button "Run Analysis" is rendered
RunButtonShownMutantAlways(analyzing) == TRUE
RunButtonShown(analyzing) == ~analyzing

\* the button "Next: Configure Analysis", shown when there is a file
ConfigureAnalysis ==
    /\ view = "import"
    /\ Len(files) > 0
    /\ view' = "analyze"
    /\ UNCHANGED <<config, channelStates, files, isAnalyzing, analyzeProgress,
                   rawChannels, selectedChannelId, batch, timers, alerts,
                   runs, edits, historyVars>>

\* the Target FPS field of the analyze view (it stays enabled while a
\* batch runs)
setConfig(fps) ==
    /\ view = "analyze"
    /\ config' = [config EXCEPT !.fps = fps]
    /\ UNCHANGED <<channelStates, sessionVars, historyVars>>

\* the button "Run Analysis", shown in the analyze view when no batch
\* runs: startAnalysis up to its first await
startAnalysis ==
    /\ view = "analyze"
    /\ RunButtonShown(isAnalyzing)
    /\ runs < MaxRuns
    /\ isAnalyzing' = TRUE
    /\ analyzeProgress' = ProgressAtDecode(0, Len(files))
    /\ batch' = [pc |-> "decode", i |-> 0, results |-> <<>>,
                 config |-> config]
    /\ runs' = runs + 1
    /\ outcome' = "running"
    /\ progressLog' = <<0, ProgressAtDecode(0, Len(files))>>
    /\ trace' = << <<"decode", 0>> >>
    /\ before' = [rawChannels |-> rawChannels,
                  channelStates |-> channelStates,
                  timers |-> timers, alerts |-> alerts, view |-> view]
    /\ inFlight' = inFlight + 1
    /\ UNCHANGED <<config, channelStates, view, files, rawChannels,
                   selectedChannelId, timers, alerts, edits, rawConfig>>

\* decodeAudioFile throws (the bytes do not decode, the file can no longer
\* be read, no AudioContext can be made): catch and finally
DecodeRejected ==
    /\ batch.pc = "decode"
    /\ alerts' = Alert(alerts)
    /\ isAnalyzing' = FALSE
    /\ batch' = NoBatch
    /\ outcome' = "failed"
    /\ trace' = Append(trace, <<"decode failed", batch.i>>)
    /\ inFlight' = inFlight - 1
    /\ UNCHANGED <<config, channelStates, view, files, analyzeProgress,
                   rawChannels, selectedChannelId, timers, runs, edits,
                   progressLog, before, rawConfig>>

\* the decode ends and analyzeAudioBuffer throws: catch and finally
ExtractionRejected ==
    /\ batch.pc = "decode"
    /\ AnalyzeThrows(CurrentBuffer, batch.config)
    /\ files' = [files EXCEPT ![batch.i + 1] =
                                 Decoded(CurrentFile, CurrentBuffer)]
    /\ analyzeProgress' = ProgressAtExtract(batch.i, Len(files))
    /\ progressLog' =
           Append(progressLog, ProgressAtExtract(batch.i, Len(files)))
    /\ alerts' = Alert(alerts)
    /\ isAnalyzing' = FALSE
    /\ batch' = NoBatch
    /\ outcome' = "failed"
    /\ trace' = Append(trace, <<"extract failed", batch.i>>)
    /\ inFlight' = inFlight - 1
    /\ UNCHANGED <<config, channelStates, view, rawChannels,
                   selectedChannelId, timers, runs, edits, before, rawConfig>>

\* the decode ends, the tracks of the source are extracted and pushed,
\* and the loop goes on to the decode of the next source
NextSource ==
    /\ batch.pc = "decode"
    /\ ~AnalyzeThrows(CurrentBuffer, batch.config)
    /\ batch.i + 1 < Len(files)
    /\ files' = [files EXCEPT ![batch.i + 1] =
                                 Decoded(CurrentFile, CurrentBuffer)]
    /\ batch' = [batch EXCEPT !.i = batch.i + 1,
                              !.results = Push(batch.results, CurrentChannels)]
    /\ analyzeProgress' = ProgressAtDecode(batch.i + 1, Len(files))
    /\ progressLog' =
           progressLog \o <<ProgressAtExtract(batch.i, Len(files)),
                            ProgressAtDecode(batch.i + 1, Len(files))>>
    /\ trace' = trace \o << <<"extract", batch.i>>, <<"decode", batch.i + 1>> >>
    /\ UNCHANGED <<config, channelStates, view, isAnalyzing, rawChannels,
                   selectedChannelId, timers, alerts, runs, edits, outcome,
                   before, rawConfig, inFlight>>

\* the decode of the last source ends, its tracks are extracted and pushed,
\* and the results are published
FinishAnalysis ==
    /\ batch.pc = "decode"
    /\ ~AnalyzeThrows(CurrentBuffer, batch.config)
    /\ batch.i + 1 >= Len(files)
    /\ files' = [files EXCEPT ![batch.i + 1] =
                                 Decoded(CurrentFile, CurrentBuffer)]
    /\ LET results == Push(batch.results, CurrentChannels)
       IN  /\ rawChannels' = results
           /\ channelStates' = InitialStates(results)
           /\ selectedChannelId' = results[1].id
    /\ analyzeProgress' = Num(100)
    /\ progressLog' =
           progressLog \o <<ProgressAtExtract(batch.i, Len(files)), Num(100)>>
    /\ timers' = timers + 1
    /\ isAnalyzing' = FALSE
    /\ batch' = NoBatch
    /\ outcome' = "done"
    /\ trace' = Append(trace, <<"extract", batch.i>>)
    /\ rawConfig' = batch.config
    /\ inFlight' = inFlight - 1
    /\ UNCHANGED <<config, view, alerts, runs, edits, before>>

\* setTimeout(() => setView('refine'), 500) fires
ViewTimer ==
    /\ timers > 0
    /\ view' = "refine"
    /\ timers' = timers - 1
    /\ UNCHANGED <<config, channelStates, files, isAnalyzing, analyzeProgress,
                   rawChannels, selectedChannelId, batch, alerts, runs, edits,
                   historyVars>>

NextSession ==
    /\ \/ \E selection \in Selections : handleFileUpload(selection)
       \/ ConfigureAnalysis
       \/ \E fps \in SessionFps : setConfig(fps)
       \/ startAnalysis
       \/ DecodeRejected
       \/ ExtractionRejected
       \/ NextSource
       \/ FinishAnalysis
       \/ ViewTimer
    /\ UNCHANGED <<refineVars, buffer, sourceId, sourceName, channels,
                   analyzed, error>>

SpecSession == InitSession /\ [][NextSession]_vars

\* C14 (as claimed): in every state of a session the channel ids of
\* rawChannels are pairwise distinct, and so are those of channelStates.
C14_ChannelIdsDistinct ==
    /\ \A j, k \in DOMAIN rawChannels :
          j # k => rawChannels[j].id # rawChannels[k].id
    /\ \A j, k \in DOMAIN channelStates :
          j # k => channelStates[j].id # channelStates[k].id

\* C15 (as claimed): the first file of the list, and no other, is tagged
\* 'master'; every later file is tagged 'stem'.
C15_FirstIsMaster ==
    \A k \in DOMAIN files :
        files[k].type = (IF k = 1 THEN "master" ELSE "stem")

\* C17 (as claimed): the tracks of rawChannels are always those of the
\* current config: none was computed under another fps or bpm.
C17_TracksOfCurrentConfig ==
    rawChannels # <<>> =>
        /\ rawConfig.fps = config.fps
        /\ rawConfig.bpm = config.bpm

\* C18 (as claimed): the progress values of one batch never decrease, and
\* a batch that completes ends at 100.
C18_ProgressMonotone ==
    /\ \A j \in 1..(Len(progressLog) - 1) :
          progressLog[j] <= progressLog[j + 1]
    /\ outcome = "done" =>
          /\ progressLog[Len(progressLog)] = Num(100)
          /\ analyzeProgress = Num(100)

\* C19: when the decode or the extraction of a source of a batch fails,
\* rawChannels and channelStates are what they were when the batch
\* started, the batch has set no timer for the refine view (the view is
\* 'refine' only if it was, or if a timer of an earlier batch was pending),
\* and the failure is reported by one alert.
C19_FailedBatchSurfacesNothing ==
    outcome = "failed" =>
        /\ rawChannels = before.rawChannels
        /\ channelStates = before.channelStates
        /\ timers <= before.timers
        /\ view = "refine" => (before.view = "refine" \/ before.timers > 0)
        /\ alerts = before.alerts + 1
        /\ ~isAnalyzing

\* a second batch fails at its second source, after the first source was
\* decoded and extracted, and the tracks of the first batch are kept
C19_Witness ==
    /\ outcome = "failed"
    /\ runs = 2
    /\ Len(trace) = 4
    /\ before.rawChannels # <<>>
    /\ rawChannels = before.rawChannels
    /\ channelStates = before.channelStates

\* the tracks of one source under a config
SourceTracks(f, cfg) ==
    analyzeAudioBuffer(f.file.audio, cfg,
                       IF f.type = "master" THEN "master" ELSE f.id,
                       ReplaceWav(f.name))

\* the track lists of the first k sources of a list, one after the other
RECURSIVE Concatenation(_, _, _)
Concatenation(list, cfg, k) ==
    IF k = 0 THEN <<>>
    ELSE Concatenation(list, cfg, k - 1) \o SourceTracks(list[k], cfg)

\* C20: the sources are handled in list order and one at a time (the j-th
\* event of a batch is the start of decode (j-1)/2 when j is odd, and the
\* end of the extraction, or the failure, of that same source when j is
\* even), the local results are the track lists of the sources done so
\* far in list order, and rawChannels is the concatenation of the track
\* lists of all sources in list order.
C20_InListOrder ==
    /\ \A j \in DOMAIN trace :
          /\ trace[j][2] = (j - 1) \div 2
          /\ IF j % 2 = 1 THEN trace[j][1] = "decode"
             ELSE trace[j][1] \in {"extract", "decode failed", "extract failed"}
          /\ (j < Len(trace) /\ j % 2 = 0) => trace[j][1] = "extract"
    /\ batch.pc = "decode" =>
          /\ Len(trace) = 2 * batch.i + 1
          /\ batch.results = Concatenation(files, batch.config, batch.i)
    /\ rawChannels # <<>> =>
          rawChannels = Concatenation(files, rawConfig, Len(files))

\* a completed batch of two different sources, a master and a stem
C20_Witness ==
    /\ outcome = "done"
    /\ Len(files) = 2
    /\ files[1].file # files[2].file
    /\ files[2].type = "stem"
    /\ trace = << <<"decode", 0>>, <<"extract", 0>>,
                  <<"decode", 1>>, <<"extract", 1>> >>
    /\ rawChannels =
          SourceTracks(files[1], rawConfig) \o SourceTracks(files[2], rawConfig)
    /\ Len(rawChannels) = 16


\* C27: in every state of a session channelStates and rawChannels are
\* aligned: they have the same number of entries, channelStates[k] has the
\* id of rawChannels[k] and is the channel as created for it (default
\* settings, visible, not muted, not soloed, the raw track as values), and
\* a batch replaces both lists or neither.
C27_ListsAligned ==
    /\ Len(channelStates) = Len(rawChannels)
    /\ \A k \in DOMAIN channelStates :
          /\ channelStates[k].id = rawChannels[k].id
          /\ channelStates[k].settings = DEFAULT_REFINEMENT
          /\ channelStates[k].visible
          /\ ~channelStates[k].mute
          /\ ~channelStates[k].solo
          /\ channelStates[k].processedValues = rawChannels[k].values
    /\ before # None =>
          ((rawChannels = before.rawChannels)
              <=> (channelStates = before.channelStates))

\* a second batch, under another fps, has replaced the lists of the first
C27_Witness ==
    /\ runs = 2
    /\ outcome = "done"
    /\ before.rawChannels # <<>>
    /\ rawChannels # before.rawChannels
    /\ channelStates # before.channelStates
    /\ Len(channelStates) = Len(rawChannels)
    /\ Len(rawChannels) >= 9

\* C28: at most one analysis batch is in flight at any time: while
\* isAnalyzing is true exactly one startAnalysis call has not ended and no
\* other one begins, and when the batch has ended, published or failed,
\* isAnalyzing is false again.
C28_OneBatchInFlight ==
    /\ inFlight \in {0, 1}
    /\ isAnalyzing <=> inFlight = 1
    /\ isAnalyzing <=> batch.pc = "decode"
    /\ isAnalyzing => ~RunButtonShown(isAnalyzing)
    /\ outcome \in {"done", "failed"} => ~isAnalyzing
    /\ outcome = "running" => isAnalyzing

\* a second batch runs after a first one that failed
C28_Witness ==
    /\ runs = 2
    /\ isAnalyzing
    /\ inFlight = 1
    /\ alerts = 1
    /\ batch.pc = "decode"

\* C29 (as claimed): once the view is 'refine' no analysis batch
\* publishes: no step taken in the refine view ends a batch with new
\* results, and rawChannels and the channels' settings stay as they are.
C29_NoBatchWhileRefining ==
    [][view = "refine" =>
          /\ ~(outcome = "running" /\ outcome' = "done")
          /\ rawChannels' = rawChannels
          /\ channelStates' = channelStates]_vars

(***************************************************************************)
(* SpecEdit: the refine view after a completed batch, under the channel    *)
(* list (selection) and the Controls panel (updateRefinement).             *)
(***************************************************************************)
\* most settings edits and flag toggles of a session
MaxEdits == 1

\* rawChannels.find(r => r.id === id) finds a channel
HasRaw(raws, id) == \E r \in DOMAIN raws : raws[r].id = id

\* rawChannels.find(r => r.id === id): the first channel of the id
FindRaw(raws, id) ==
    raws[CHOOSE r \in DOMAIN raws :
            /\ raws[r].id = id
            /\ \A m \in 1..(r - 1) : raws[m].id # id]

\* channelStates.find(c => c.id === selectedChannelId)
FindState(states, id) ==
    states[CHOOSE k \in DOMAIN states :
              /\ states[k].id = id
              /\ \A m \in 1..(k - 1) : states[m].id # id]

\* the setChannelStates updater of updateRefinement(id, settings)
UpdateRefinement(states, raws, cfg, id, st) ==
    [k \in DOMAIN states |->
        IF states[k].id = id /\ HasRaw(raws, id)
        THEN [states[k] EXCEPT
                 !.settings = st,
                 !.processedValues =
                     refineChannel(FindRaw(raws, id).values, st,
                                   cfg.bpm, cfg.fps)]
        ELSE states[k]]

\* rawChannels after updateRefinement(id, settings): the raw channel that
\* find returns is the argument of the refineChannel calls of the updater
RawsAfterUpdate(states, raws, id, st) ==
    [r \in DOMAIN raws |->
        IF /\ raws[r].id = id
           /\ \A m \in 1..(r - 1) : raws[m].id # id
           /\ \E k \in DOMAIN states : states[k].id = id
        THEN [raws[r] EXCEPT !.values = RawAfterRefine(raws[r].values, st)]
        ELSE raws[r]]

\* the settings that one use of a control of the panel asks for:
\* { ...channel.settings, [key]: value } for the gain slider (1 or 2) and
\* for the invert switch
ControlEdits(st) ==
    {[st EXCEPT !.gain = IF st.gain = One THEN 2 * One ELSE One],
     [st EXCEPT !.invert = ~st.invert]}

\* the for loop of startAnalysis over a list whose sources all decode
RECURSIVE AnalysisLoop(_, _, _, _)
AnalysisLoop(list, cfg, i, results) ==
    IF i >= Len(list) THEN results
    ELSE AnalysisLoop(list, cfg, i + 1,
             Push(results,
                  analyzeAudioBuffer(decodeAudioFile(list[i + 1].file), cfg,
                                     SourceIdOf(list[i + 1]),
                                     ReplaceWav(list[i + 1].name))))

\* file lists that the import view can build: one file, two files of one
\* selection, and two files of two selections
ShortLists ==
    {WithNewFiles(<<>>, <<file>>) : file \in Disk}
    \cup {WithNewFiles(<<>>, <<KickFile, BassFile>>),
          WithNewFiles(WithNewFiles(<<>>, <<KickFile>>), <<BassFile>>)}

\* the App in the refine view after one completed batch under the default
\* config
InitEdit ==
    /\ \E list \in ShortLists :
          LET results == AnalysisLoop(list, DEFAULT_CONFIG, 0, <<>>)
          IN  /\ files = [k \in DOMAIN list |->
                             Decoded(list[k], decodeAudioFile(list[k].file))]
              /\ rawChannels = results
              /\ channelStates = InitialStates(results)
              /\ selectedChannelId = results[1].id
    /\ view = "refine"
    /\ isAnalyzing = FALSE
    /\ analyzeProgress = Num(100)
    /\ batch = NoBatch
    /\ timers = 0
    /\ alerts = 0
    /\ runs = 1
    /\ edits = 0
    /\ outcome = "done"
    /\ progressLog = <<>>
    /\ trace = <<>>
    /\ before = None
    /\ rawConfig = DEFAULT_CONFIG
    /\ inFlight = 0
    /\ RefineIdle
    /\ AnalyzeIdle

\* onClick={() => setSelectedChannelId(ch.id)} of the channel list
selectChannel(id) ==
    /\ view = "refine"
    /\ selectedChannelId' = id
    /\ UNCHANGED <<channelStates, edits>>

\* update(key, value) of the Controls panel: onUpdate(selectedChannelId,
\* { ...channel.settings, [key]: value }), which is updateRefinement
update(st) ==
    /\ view = "refine"
    /\ edits < MaxEdits
    /\ channelStates' = UpdateRefinement(channelStates, rawChannels, config,
                                         selectedChannelId, st)
    /\ rawChannels' = RawsAfterUpdate(channelStates, rawChannels,
                                      selectedChannelId, st)
    /\ edits' = edits + 1
    /\ UNCHANGED selectedChannelId

\* a click on the colour dot, on M or on S of a row of the channel list
toggle(id, key) ==
    /\ view = "refine"
    /\ edits < MaxEdits
    /\ toggleChannelState(id, key)
    /\ edits' = edits + 1
    /\ UNCHANGED <<selectedChannelId, rawChannels>>

NextEdit ==
    /\ \/ \E k \in DOMAIN channelStates :
              selectChannel(channelStates[k].id) /\ UNCHANGED rawChannels
       \/ \E st \in ControlEdits(FindState(channelStates,
                                           selectedChannelId).settings) :
              update(st)
       \/ \E k \in DOMAIN channelStates, key \in {"visible", "mute", "solo"} :
              toggle(channelStates[k].id, key)
    /\ UNCHANGED <<refineVars, analyzeVars, historyVars, view, files,
                   isAnalyzing, analyzeProgress, batch, timers, alerts, runs>>

SpecEdit == InitEdit /\ [][NextEdit]_vars

\* C16 (as claimed): after a completed analysis the processedValues of
\* every channel are refineChannel(raw.values, channel.settings) for the
\* raw channel of the same id, so of the length of that raw track.
C16_ProcessedIsRefined ==
    rawChannels # <<>> =>
        \A k \in DOMAIN channelStates :
            /\ \E r \in DOMAIN rawChannels :
                  rawChannels[r].id = channelStates[k].id
            /\ \A r \in DOMAIN rawChannels :
                  rawChannels[r].id = channelStates[k].id =>
                      channelStates[k].processedValues =
                          refineChannel(rawChannels[r].values,
                                        channelStates[k].settings,
                                        config.bpm, config.fps)

\* C21: raw tracks are never modified after extraction: after any settings
\* edits and flag toggles, rawChannels is, element by element, what the
\* extraction from the files under the config of the batch produced; only
\* processedValues is replaced.
C21_RawNeverModified ==
    rawChannels = AnalysisLoop(files, rawConfig, 0, <<>>)

\* an edit has replaced the processedValues of the selected channel, which
\* started as its raw track, by values that differ from the raw track
C21_Witness ==
    /\ edits = 1
    /\ \E k \in DOMAIN channelStates :
          /\ channelStates[k].id = selectedChannelId
          /\ channelStates[k].settings # DEFAULT_REFINEMENT
          /\ Len(rawChannels[k].values) > 0
          /\ channelStates[k].processedValues # rawChannels[k].values
          /\ InitialStates(rawChannels)[k].processedValues =
                 rawChannels[k].values
    /\ rawChannels = AnalysisLoop(files, rawConfig, 0, <<>>)

\* an id that no channel carries
NoSuchId == <<"", "nosuch">>

\* the channels of the list that a step changes
Changed == {k \in DOMAIN channelStates : channelStates'[k] # channelStates[k]}

\* C26 (as claimed): channel actions are isolated: a step changes at most
\* one channel of the list, and of that channel either only settings and
\* processedValues (updateRefinement) or only one of the flags visible,
\* mute, solo (toggleChannelState); toggling the same flag of the same id
\* twice restores the list; an id that matches no channel changes nothing.
C26_ChannelActionsIsolated ==
    [][/\ DOMAIN channelStates' = DOMAIN channelStates
       /\ Cardinality(Changed) <= 1
       /\ \A k \in Changed :
             LET old == channelStates[k]
                 new == channelStates'[k]
             IN  \/ new = [old EXCEPT !.settings = new.settings,
                                      !.processedValues = new.processedValues]
                 \/ \E key \in {"visible", "mute", "solo"} :
                       new = [old EXCEPT ![key] = ~old[key]]
       /\ \A k \in DOMAIN channelStates, key \in {"visible", "mute", "solo"} :
             ToggleKey(ToggleKey(channelStates, channelStates[k].id, key),
                       channelStates[k].id, key) = channelStates
       /\ \A key \in {"visible", "mute", "solo"} :
             ToggleKey(channelStates, NoSuchId, key) = channelStates
       /\ \A st \in ControlEdits(DEFAULT_REFINEMENT) :
             UpdateRefinement(channelStates, rawChannels, config,
                              NoSuchId, st) = channelStates
      ]_vars

=============================================================================
